---- MODULE Spec2Model ----
(***************************************************************************)
(* PassWorld credential vault: src/core/database.py over the sqlite file   *)
(* data/vault.db.  The database is the set of rows of table `passwords`,   *)
(* the schema objects created by init_db, the AUTOINCREMENT counter and    *)
(* the connections the last call opened and had not closed when it         *)
(* returned or raised, and the log messages the last call emitted.  Every  *)
(* public function of database.py is one action; a sqlite3.Error raised   *)
(* by the storage layer is an input of the action (fault).  SpecConc runs  *)
(* two mutating calls from two execution contexts, statement by statement, *)
(* under the write lock of the database file (lock, ctx, start).           *)
(***************************************************************************)
EXTENDS Integers, Sequences, FiniteSets, TLC

VARIABLES schema, rows, nextId, now, openConns, pc, last, logged,
          lock, ctx, start

concVars == <<lock, ctx, start>>

vars == <<schema, rows, nextId, now, openConns, pc, last, logged, concVars>>

----------------------------------------------------------------------------
(* Bounds of the model *)

MaxId == 2
MaxTime == 1

----------------------------------------------------------------------------
(* Values *)

NULL == "NULL"
UnsetTime == <<>>

Services == {"github", "github-new"}
Usernames == {"alice", "alice2"}

PasswordEntry(service, username, encrypted_password, created_at) ==
    [service |-> service, username |-> username,
     encrypted_password |-> encrypted_password, created_at |-> created_at]

NoEntry == PasswordEntry(NULL, NULL, NULL, UnsetTime)

InputEntries ==
    { PasswordEntry("github", "alice", "x0102", UnsetTime),
      PasswordEntry("github", "alice2", "x03", UnsetTime),
      PasswordEntry("github-new", "alice2", "x03", UnsetTime),
      PasswordEntry(NULL, "alice", "x0102", UnsetTime) }

InputServices == Services

Faults == {"none", "connect", "pragma", "execute", "fetch", "commit"}

CurrentTimestamp == <<"text", now>>

FromIsoFormat(text) == <<"datetime", text[2]>>

----------------------------------------------------------------------------
(* Results of the operations *)

Ret(kind, ok, entries) == [kind |-> kind, ok |-> ok, entries |-> entries]

RetBool(b) == Ret("bool", b, <<>>)
RetNone == Ret("none", TRUE, <<>>)
RetRaised == Ret("raised", FALSE, <<>>)
RetOptional(s) == Ret("optional", Len(s) > 0, s)
RetList(s) == Ret("list", TRUE, s)

Call(op, service, username, entry, fault, result) ==
    [op |-> op, service |-> service, username |-> username, entry |-> entry,
     fault |-> fault, result |-> result]

----------------------------------------------------------------------------
(* The schema created by init_db *)

NoSchema == [table |-> FALSE, idx_service |-> FALSE, idx_username |-> FALSE]

UniqueColumns == {"id"}

NotNullColumns == {"service", "username", "encrypted_password"}

FullSchema == [table |-> TRUE, idx_service |-> TRUE, idx_username |-> TRUE]

Exists(sch, k) ==
    IF k = 1 THEN sch.table ELSE IF k = 2 THEN sch.idx_service ELSE sch.idx_username

IfNotExistsTableOnly(k) == k = 1

IfNotExists(k) == k \in {1, 2, 3}

SchemaAfter(sch, k) ==
    [table |-> sch.table \/ k >= 1,
     idx_service |-> sch.idx_service \/ k >= 2,
     idx_username |-> sch.idx_username \/ k >= 3]

----------------------------------------------------------------------------
(* get_connection *)

ConnectRaises(fault) == fault \in {"connect", "pragma"}

Opened(fault) == fault # "connect"

Leaked(fault) == IF Opened(fault) THEN 1 ELSE 0

----------------------------------------------------------------------------

(* Exceptions of the storage layer and the rows a statement touches *)

SqliteErrors == {"OperationalError", "IntegrityError"}

Row(id, entry, created_at) ==
    [id |-> id, service |-> entry.service, username |-> entry.username,
     encrypted_password |-> entry.encrypted_password, created_at |-> created_at]

ToEntry(r) ==
    PasswordEntry(r.service, r.username, r.encrypted_password,
                  FromIsoFormat(r.created_at))

Matching(column, value) == { r \in rows : r[column] = value }

ServiceHits(service) == Matching("service", service)

UsernameHitsByService(username) == Matching("service", username)

UsernameHits(username) == Matching("username", username)

InsertViolates(entry) ==
    \/ \E c \in NotNullColumns : entry[c] = NULL
    \/ \E c \in UniqueColumns \ {"id"} : \E r \in rows : r[c] = entry[c]

UpdateViolates(service, entry) ==
    LET hit == Matching("service", service) IN
    /\ hit # {}
    /\ \/ \E c \in NotNullColumns : entry[c] = NULL
       \/ \E c \in UniqueColumns \ {"id"} :
             \/ \E r \in rows \ hit : r[c] = entry[c]
             \/ Cardinality(hit) > 1

InsertRow(entry) == rows \cup { Row(nextId, entry, CurrentTimestamp) }

UpdateRowsTouchingCreatedAt(service, entry) ==
    { IF r.service = service
        THEN [r EXCEPT !.service = entry.service, !.username = entry.username,
                       !.encrypted_password = entry.encrypted_password,
                       !.created_at = CurrentTimestamp]
        ELSE r : r \in rows }

UpdateRowsWithoutWhere(service, entry) ==
    { [r EXCEPT !.service = entry.service, !.username = entry.username,
                !.encrypted_password = entry.encrypted_password] : r \in rows }

UpdateRows(service, entry) ==
    { IF r.service = service
        THEN [r EXCEPT !.service = entry.service, !.username = entry.username,
                       !.encrypted_password = entry.encrypted_password]
        ELSE r : r \in rows }

DeleteRowsOldest(service) ==
    LET hit == Matching("service", service) IN
    rows \ { r \in hit : \A q \in hit : r.id <= q.id }

DeleteRows(service) == rows \ Matching("service", service)

RollbackKeepsWrites(before, written) == written

Rollback(before, written) == before

Fetchone(hit) == IF hit = {} THEN { <<>> } ELSE { <<ToEntry(r)>> : r \in hit }

FetchallFirstRowOnly(S) == Fetchone(S)

Fetchall(S) ==
    { [i \in 1..Cardinality(S) |-> ToEntry(f[i])] :
        f \in { g \in [1..Cardinality(S) -> S] :
                  \A i, j \in 1..Cardinality(S) : i # j => g[i] # g[j] } }

StatementError(fault, violated) ==
    IF ConnectRaises(fault) THEN "OperationalError"
    ELSE IF fault = "execute" \/ ~schema.table THEN "OperationalError"
    ELSE IF violated THEN "IntegrityError"
    ELSE IF fault \in {"fetch", "commit"} THEN "OperationalError"
    ELSE "none"

StatementRan(fault, violated) ==
    /\ ~ConnectRaises(fault)
    /\ fault # "execute"
    /\ schema.table
    /\ ~violated

----------------------------------------------------------------------------
(* The except clauses of each function *)

InitDbSwallows(exc) == exc \in SqliteErrors

InitDbCatches(exc) == FALSE

CreateCatchesIntegrityOnly(exc) == exc = "IntegrityError"

CreateCatches(exc) == exc = "IntegrityError" \/ exc \in SqliteErrors

ReadAllCatches(exc) == exc \in SqliteErrors

ReadByServiceCatches(exc) == exc \in SqliteErrors

ReadByUsernameCatches(exc) == exc \in SqliteErrors

UpdateCatches(exc) == exc = "IntegrityError" \/ exc \in SqliteErrors

DeleteCatches(exc) == exc \in SqliteErrors

----------------------------------------------------------------------------
(* Two execution contexts, each with its own connection *)

Contexts == {1, 2}

NoContext ==
    [op |-> "none", service |-> NULL, entry |-> NoEntry, at |-> "done",
     result |-> RetNone, written |-> {}, rowcount |-> 0]

Issued(op, service, entry) ==
    [op |-> op, service |-> service, entry |-> entry, at |-> "execute",
     result |-> RetNone, written |-> {}, rowcount |-> 0]

ConcurrentCalls ==
    { Issued("create", e.service, e) : e \in InputEntries \ {PasswordEntry(NULL, "alice", "x0102", UnsetTime)} }
    \cup { Issued("update", "github", PasswordEntry("github-new", "alice2", "x03", UnsetTime)),
            Issued("update", "github", PasswordEntry("github", "alice2", "x03", UnsetTime)) }
    \cup { Issued("delete", sv, NoEntry) : sv \in InputServices }

StartVaults ==
    { [rows |-> {}, nextId |-> 1],
      [rows |-> { Row(1, PasswordEntry("github", "alice", "x0102", UnsetTime), <<"text", 0>>) },
       nextId |-> 2] }

CanWriteUnlocked(c) == TRUE

CanWrite(c) == lock \in {0, c}

----------------------------------------------------------------------------
(* The logger calls on each path of each function *)

ConnectLog(fault) == IF ConnectRaises(fault) THEN <<"CRITICAL">> ELSE <<>>

InitDbLog(exc) == IF exc = "none" THEN <<"INFO">> ELSE <<"ERROR">>

ImportLog(result) ==
    IF pc = "import" /\ result = RetRaised THEN <<"CRITICAL">> ELSE <<>>

CreateLog(exc) ==
    IF exc = "none" THEN <<"SUCCESS">>
    ELSE IF exc = "IntegrityError" THEN <<"WARNING">>
    ELSE <<"ERROR">>

ReadAllLog(exc) == IF exc = "none" THEN <<>> ELSE <<"ERROR">>

ReadByServiceLog(exc, row) ==
    IF exc = "none" THEN (IF Len(row) > 0 THEN <<>> ELSE <<"DEBUG">>)
    ELSE <<"ERROR">>

ReadByUsernameLog(exc, row) ==
    IF exc = "none" THEN (IF Len(row) > 0 THEN <<>> ELSE <<"DEBUG">>)
    ELSE <<"ERROR">>

UpdateLog(exc, success) ==
    IF exc = "none" THEN (IF success THEN <<"INFO">> ELSE <<"WARNING">>)
    ELSE <<"ERROR">>

DeleteLog(exc, success) ==
    IF exc = "none" THEN (IF success THEN <<"INFO">> ELSE <<"WARNING">>)
    ELSE <<"ERROR">>

----------------------------------------------------------------------------

Init ==
    /\ schema = NoSchema
    /\ rows = {}
    /\ nextId = 1
    /\ now = 0
    /\ openConns = 0
    /\ pc = "import"
    /\ last = Call("none", NULL, NULL, NoEntry, "none", RetNone)
    /\ logged = <<>>
    /\ lock = 0
    /\ ctx = [c \in Contexts |-> NoContext]
    /\ start = [rows |-> {}, nextId |-> 1]

(* init_db: three DDL statements, each durable as soon as it has run;      *)
(* `failing` is the statement at which the fault "execute" strikes.        *)
init_db(fault, failing) ==
    LET bad == { k \in 1..3 : \/ fault = "execute" /\ k = failing
                              \/ Exists(schema, k) /\ ~IfNotExists(k) }
        raises == ConnectRaises(fault) \/ bad # {}
        done == IF ConnectRaises(fault) THEN 0
                ELSE IF bad # {} THEN (CHOOSE k \in bad : \A j \in bad : k <= j) - 1
                ELSE 3
        exc == IF raises THEN "OperationalError" ELSE "none"
        result == IF exc = "none" \/ InitDbCatches(exc) THEN RetNone ELSE RetRaised
        leak == Leaked(fault)
    IN
    /\ schema' = SchemaAfter(schema, done)
    /\ openConns' = leak
    /\ last' = Call("init_db", NULL, NULL, NoEntry, fault, result)
    /\ logged' = ConnectLog(fault) \o InitDbLog(exc) \o ImportLog(result)
    /\ UNCHANGED <<rows, nextId, now>>

ModuleInitIgnoringFailure ==
    /\ UNCHANGED concVars
    /\ pc = "import"
    /\ \E fault \in {"none", "connect", "pragma", "execute"}, failing \in 1..3 :
          /\ fault # "execute" => failing = 1
          /\ init_db(fault, failing)
          /\ pc' = "ready"

ModuleInit ==
    /\ UNCHANGED concVars
    /\ pc = "import"
    /\ \E fault \in {"none", "connect", "pragma", "execute"}, failing \in 1..3 :
          /\ fault # "execute" => failing = 1
          /\ init_db(fault, failing)
          /\ pc' = IF last'.result = RetRaised THEN "aborted" ELSE "ready"

InitDb ==
    /\ UNCHANGED concVars
    /\ pc = "ready"
    /\ \E fault \in {"none", "connect", "pragma", "execute"}, failing \in 1..3 :
          /\ fault # "execute" => failing = 1
          /\ init_db(fault, failing)
          /\ pc' = pc

create_password(entry, fault) ==
    LET violated == InsertViolates(entry)
        exc == StatementError(fault, violated)
        written == IF StatementRan(fault, violated) THEN InsertRow(entry) ELSE rows
        rowcount == 1
        result == IF exc = "none" THEN RetBool(rowcount > 0)
                  ELSE IF CreateCatches(exc) THEN RetBool(FALSE)
                  ELSE RetRaised
        leak == Leaked(fault)
    IN
    /\ exc = "none" => nextId <= MaxId
    /\ rows' = IF exc = "none" THEN written ELSE Rollback(rows, written)
    /\ nextId' = IF exc = "none" THEN nextId + 1 ELSE nextId
    /\ openConns' = leak
    /\ last' = Call("create", entry.service, NULL, entry, fault, result)
    /\ logged' = ConnectLog(fault) \o CreateLog(exc)
    /\ UNCHANGED <<schema, now, pc>>

CreatePassword ==
    /\ UNCHANGED concVars
    /\ pc = "ready"
    /\ \E entry \in InputEntries,
          fault \in {"none", "connect", "pragma", "execute", "commit"} :
          create_password(entry, fault)

read_all_passwords(fault, fetched) ==
    LET exc == StatementError(fault, FALSE)
        result == IF exc = "none" THEN RetList(fetched)
                  ELSE IF ReadAllCatches(exc) THEN RetList(<<>>)
                  ELSE RetRaised
        leak == Leaked(fault)
    IN
    /\ openConns' = leak
    /\ last' = Call("read_all", NULL, NULL, NoEntry, fault, result)
    /\ logged' = ConnectLog(fault) \o ReadAllLog(exc)
    /\ UNCHANGED <<schema, rows, nextId, now, pc>>

ReadAllPasswords ==
    /\ UNCHANGED concVars
    /\ pc = "ready"
    /\ \E fault \in {"none", "connect", "pragma", "execute", "fetch"} :
          \E fetched \in IF fault = "none" THEN Fetchall(rows) ELSE { <<>> } :
             read_all_passwords(fault, fetched)

read_password_by_serviceConsuming(service, fault, row) ==
    LET exc == StatementError(fault, FALSE)
        result == IF exc = "none" THEN RetOptional(row)
                  ELSE IF ReadByServiceCatches(exc) THEN RetOptional(<<>>)
                  ELSE RetRaised
        leak == Leaked(fault)
    IN
    /\ rows' = IF exc = "none" THEN DeleteRows(service) ELSE rows
    /\ openConns' = leak
    /\ last' = Call("read_by_service", service, NULL, NoEntry, fault, result)
    /\ logged' = ConnectLog(fault) \o ReadByServiceLog(exc, row)
    /\ UNCHANGED <<schema, nextId, now, pc>>

read_password_by_service(service, fault, row) ==
    LET exc == StatementError(fault, FALSE)
        result == IF exc = "none" THEN RetOptional(row)
                  ELSE IF ReadByServiceCatches(exc) THEN RetOptional(<<>>)
                  ELSE RetRaised
        leak == Leaked(fault)
    IN
    /\ openConns' = leak
    /\ last' = Call("read_by_service", service, NULL, NoEntry, fault, result)
    /\ logged' = ConnectLog(fault) \o ReadByServiceLog(exc, row)
    /\ UNCHANGED <<schema, rows, nextId, now, pc>>

ReadPasswordByService ==
    /\ UNCHANGED concVars
    /\ pc = "ready"
    /\ \E service \in InputServices,
          fault \in {"none", "connect", "pragma", "execute", "fetch"} :
          \E row \in IF fault = "none" THEN Fetchone(ServiceHits(service))
                                         ELSE { <<>> } :
             read_password_by_service(service, fault, row)

read_password_by_username(username, fault, row) ==
    LET exc == StatementError(fault, FALSE)
        result == IF exc = "none" THEN RetOptional(row)
                  ELSE IF ReadByUsernameCatches(exc) THEN RetOptional(<<>>)
                  ELSE RetRaised
        leak == Leaked(fault)
    IN
    /\ openConns' = leak
    /\ last' = Call("read_by_username", NULL, username, NoEntry, fault, result)
    /\ logged' = ConnectLog(fault) \o ReadByUsernameLog(exc, row)
    /\ UNCHANGED <<schema, rows, nextId, now, pc>>

ReadPasswordByUsername ==
    /\ UNCHANGED concVars
    /\ pc = "ready"
    /\ \E username \in Usernames,
          fault \in {"none", "connect", "pragma", "execute", "fetch"} :
          \E row \in IF fault = "none" THEN Fetchone(UsernameHits(username))
                                         ELSE { <<>> } :
             read_password_by_username(username, fault, row)

update_password(service, new_entry, fault) ==
    LET violated == UpdateViolates(service, new_entry)
        exc == StatementError(fault, violated)
        written == IF StatementRan(fault, violated)
                     THEN UpdateRows(service, new_entry) ELSE rows
        rowcount == Cardinality(Matching("service", service))
        success == rowcount > 0
        result == IF exc = "none" THEN RetBool(success)
                  ELSE IF UpdateCatches(exc) THEN RetBool(FALSE)
                  ELSE RetRaised
        leak == Leaked(fault)
    IN
    /\ rows' = IF exc = "none" THEN written ELSE Rollback(rows, written)
    /\ openConns' = leak
    /\ last' = Call("update", service, NULL, new_entry, fault, result)
    /\ logged' = ConnectLog(fault) \o UpdateLog(exc, success)
    /\ UNCHANGED <<schema, nextId, now, pc>>

UpdatePassword ==
    /\ UNCHANGED concVars
    /\ pc = "ready"
    /\ \E service \in InputServices, new_entry \in InputEntries,
          fault \in {"none", "connect", "pragma", "execute", "commit"} :
          update_password(service, new_entry, fault)

delete_password(service, fault) ==
    LET exc == StatementError(fault, FALSE)
        written == IF StatementRan(fault, FALSE) THEN DeleteRows(service) ELSE rows
        rowcount == Cardinality(Matching("service", service))
        success == rowcount > 0
        result == IF exc = "none" THEN RetBool(success)
                  ELSE IF DeleteCatches(exc) THEN RetBool(FALSE)
                  ELSE RetRaised
        leak == Leaked(fault)
    IN
    /\ rows' = IF exc = "none" THEN written ELSE Rollback(rows, written)
    /\ openConns' = leak
    /\ last' = Call("delete", service, NULL, NoEntry, fault, result)
    /\ logged' = ConnectLog(fault) \o DeleteLog(exc, success)
    /\ UNCHANGED <<schema, nextId, now, pc>>

DeletePassword ==
    /\ UNCHANGED concVars
    /\ pc = "ready"
    /\ \E service \in InputServices,
          fault \in {"none", "connect", "pragma", "execute", "commit"} :
          delete_password(service, fault)

(* The wall clock behind CURRENT_TIMESTAMP advances between calls. *)
Tick ==
    /\ now < MaxTime
    /\ now' = now + 1
    /\ UNCHANGED <<schema, rows, nextId, openConns, pc, last, logged, concVars>>

(* A process in which the module is loaded, two contexts have each issued *)
(* one mutating call and opened its connection.                            *)
InitConc ==
    /\ schema = FullSchema
    /\ start \in StartVaults
    /\ rows = start.rows
    /\ nextId = start.nextId
    /\ now = 0
    /\ openConns = 0
    /\ pc = "ready"
    /\ last = Call("init_db", NULL, NULL, NoEntry, "none", RetNone)
    /\ logged = <<"INFO">>
    /\ lock = 0
    /\ ctx \in [Contexts -> ConcurrentCalls]

(* conn.execute of the INSERT, UPDATE or DELETE: the statement takes the   *)
(* write lock of the file and its changes stay uncommitted.                *)
Execute(c) ==
    LET call == ctx[c]
        written == IF call.op = "create" THEN InsertRow(call.entry)
                   ELSE IF call.op = "update" THEN UpdateRows(call.service, call.entry)
                   ELSE DeleteRows(call.service)
        rowcount == IF call.op = "create" THEN 1
                    ELSE Cardinality(Matching("service", call.service))
    IN
    /\ call.at = "execute"
    /\ CanWrite(c)
    /\ lock' = c
    /\ ctx' = [ctx EXCEPT ![c].at = "commit", ![c].written = written,
                           ![c].rowcount = rowcount]
    /\ UNCHANGED <<schema, rows, nextId, now, openConns, pc, last, logged, start>>

(* conn.execute while the other connection holds the write lock beyond the *)
(* busy timeout: sqlite3.OperationalError, caught, the call returns False. *)
Busy(c) ==
    /\ ctx[c].at = "execute"
    /\ ~CanWrite(c)
    /\ ctx' = [ctx EXCEPT ![c].at = "done", ![c].result = RetBool(FALSE)]
    /\ UNCHANGED <<schema, rows, nextId, now, openConns, pc, last, logged, lock,
                   start>>

(* conn.commit and the return of the call. *)
Commit(c) ==
    /\ ctx[c].at = "commit"
    /\ rows' = ctx[c].written
    /\ nextId' = IF ctx[c].op = "create" THEN nextId + 1 ELSE nextId
    /\ lock' = 0
    /\ ctx' = [ctx EXCEPT ![c].at = "done",
                           ![c].result = RetBool(ctx[c].rowcount > 0)]
    /\ UNCHANGED <<schema, now, openConns, pc, last, logged, start>>

(* conn.commit while the other connection, still attempting its statement, *)
(* holds a read lock beyond the busy timeout: sqlite3.OperationalError,    *)
(* the with block rolls back, the call returns False.                      *)
CommitBusy(c) ==
    /\ ctx[c].at = "commit"
    /\ \E d \in Contexts \ {c} : ctx[d].at = "execute"
    /\ rows' = Rollback(rows, ctx[c].written)
    /\ lock' = 0
    /\ ctx' = [ctx EXCEPT ![c].at = "done", ![c].result = RetBool(FALSE)]
    /\ UNCHANGED <<schema, nextId, now, openConns, pc, last, logged, start>>

NextConc ==
    \E c \in Contexts : Execute(c) \/ Busy(c) \/ Commit(c) \/ CommitBusy(c)

SpecConc == InitConc /\ [][NextConc]_vars

Next ==
    \/ ModuleInit
    \/ InitDb
    \/ CreatePassword
    \/ ReadAllPasswords
    \/ ReadPasswordByService
    \/ ReadPasswordByUsername
    \/ UpdatePassword
    \/ DeletePassword
    \/ Tick

Spec == Init /\ [][Next]_vars

TypeOK ==
    /\ nextId \in 1..(MaxId + 1)
    /\ now \in 0..MaxTime
    /\ openConns \in 0..1
    /\ pc \in {"import", "ready", "aborted"}
    /\ last.fault \in Faults
    /\ \A r \in rows : r.id < nextId

----------------------------------------------------------------------------
(* Steps and results the properties speak about *)

Called(op) == now' = now /\ last'.op = op

Keyed(S, service) == { r \in S : r.service = service }

Carries(r, entry) ==
    /\ r.service = entry.service
    /\ r.username = entry.username
    /\ r.encrypted_password = entry.encrypted_password

Found(result, entry) ==
    /\ result.kind = "optional"
    /\ result.ok
    /\ Len(result.entries) = 1
    /\ Carries(result.entries[1], entry)

NotFound(result) == result = RetOptional(<<>>)

----------------------------------------------------------------------------
(* C1: in every reachable state no two stored entries have the same        *)
(* service value.                                                          *)
UniqueService ==
    \A r1, r2 \in rows : r1.service = r2.service => r1 = r2

(* C2: Create(entry) on a service that is already stored returns false,    *)
(* inserts no row and leaves the stored entries as they were.              *)
DuplicateCreateRejected ==
    [][ (Called("create") /\ Keyed(rows, last'.entry.service) # {})
          => (last'.result = RetBool(FALSE) /\ rows' = rows) ]_vars

(* C3: when Create(entry) has returned true, a ReadByService(entry.service)*)
(* that follows it without a storage failure returns an entry with         *)
(* entry's service, username and encrypted_password and a set created_at.  *)
RoundTrip ==
    [][ ( /\ last.op = "create"
          /\ last.result = RetBool(TRUE)
          /\ Called("read_by_service")
          /\ last'.service = last.entry.service
          /\ last'.fault = "none" )
          => ( /\ Found(last'.result, last.entry)
               /\ last'.result.entries[1].created_at # UnsetTime ) ]_vars

(* C4: Update(service, newEntry) whose new service is the key of another   *)
(* stored entry returns false and changes neither entry.                   *)
UpdateCollisionRejected ==
    [][ ( /\ Called("update")
          /\ last'.entry.service # last'.service
          /\ Keyed(rows, last'.service) # {}
          /\ Keyed(rows, last'.entry.service) # {} )
          => (last'.result = RetBool(FALSE) /\ rows' = rows) ]_vars

(* C5: Update returns true only when an entry keyed by service existed,    *)
(* and then every such entry carries newEntry's fields under its old id    *)
(* and created_at; an Update that changed an existing entry returns true;  *)
(* and no step changes the created_at of an entry that stays stored.       *)
UpdatePreservesCreatedAt ==
    [][ /\ Called("update") =>
             LET hit == Keyed(rows, last'.service) IN
             /\ last'.result = RetBool(TRUE) =>
                   /\ hit # {}
                   /\ \A r \in hit : \E q \in rows' :
                         /\ q.id = r.id
                         /\ Carries(q, last'.entry)
                         /\ q.created_at = r.created_at
             /\ (hit # {} /\ rows' # rows) => last'.result = RetBool(TRUE)
        /\ \A r \in rows : \A q \in rows' :
              q.id = r.id => q.created_at = r.created_at
        /\ \A q \in rows' : (\A r \in rows : r.id # q.id) => q.id >= nextId ]_vars

UpdatePreservesCreatedAtWitness ==
    /\ last.op = "update"
    /\ last.result = RetBool(TRUE)
    /\ last.service = "github"
    /\ \E r \in rows :
          /\ Carries(r, last.entry)
          /\ r.service = "github-new"
          /\ r.created_at[2] < now

(* C6: after a successful Update(old, newEntry) that changes the key,      *)
(* ReadByService(old) returns not found and ReadByService(newEntry.service)*)
(* returns an entry with newEntry's username and encrypted_password.       *)
ReKeyedRead ==
    [][ ( /\ last.op = "update"
          /\ last.result = RetBool(TRUE)
          /\ last.service # last.entry.service
          /\ Called("read_by_service")
          /\ last'.fault = "none" )
          => ( /\ last'.service = last.service => NotFound(last'.result)
               /\ last'.service = last.entry.service
                     => Found(last'.result, last.entry) ) ]_vars

DeleteEffect(okWhen(_)) ==
    /\ Called("delete") =>
          LET hit == Keyed(rows, last'.service) IN
          /\ last'.result = RetBool(TRUE) <=> okWhen(hit)
          /\ last'.result = RetBool(TRUE) => Keyed(rows', last'.service) = {}
          /\ hit = {} => (last'.result = RetBool(FALSE) /\ rows' = rows)
    /\ \A s \in Services :
          (Keyed(rows, s) = {} /\ Keyed(rows', s) # {})
             => (Called("create") \/ Called("update"))
    /\ ( /\ Called("read_by_service")
         /\ last'.fault = "none"
         /\ Keyed(rows, last'.service) = {} ) => NotFound(last'.result)

DeleteExisted(hit) == hit # {}

DeleteExistedNoFault(hit) == hit # {} /\ last'.fault = "none"

(* C7 as stated: Delete(service) returns true if and only if an entry      *)
(* keyed by service existed before the call; after a true Delete the       *)
(* service stays absent until a Create or Update introduces it; Delete of  *)
(* an absent service returns false and removes nothing.                    *)
DeleteIffExisted == [][ DeleteEffect(DeleteExisted) ]_vars

(* C7 amended: Delete(service) returns true if and only if an entry keyed  *)
(* by service existed before the call and no storage fault struck the      *)
(* call; the rest as stated.                                               *)
DeleteIffExistedNoFault == [][ DeleteEffect(DeleteExistedNoFault) ]_vars

DeleteIffExistedNoFaultWitness ==
    /\ last.op = "delete"
    /\ last.result = RetBool(TRUE)
    /\ Keyed(rows, last.service) = {}
    /\ rows # {}

(* C8: a Create, Update or Delete that returns false, whatever the cause,  *)
(* leaves the stored entries and all their fields as they were.            *)
FailedCallChangesNothing ==
    [][ ( /\ now' = now
          /\ last'.op \in {"create", "update", "delete"}
          /\ last'.result = RetBool(FALSE) )
          => rows' = rows ]_vars

FailedCallChangesNothingWitness ==
    /\ last.op = "update"
    /\ last.fault = "commit"
    /\ last.result = RetBool(FALSE)
    /\ \E r \in Keyed(rows, last.service) : ~Carries(r, last.entry)

(* C9: no operation leaves a connection open when it returns or raises.    *)
NoOpenConnection == openConns = 0

CrudOps ==
    {"create", "read_all", "read_by_service", "read_by_username", "update", "delete"}

(* C10: no CRUD operation raises: under a storage fault Create, Update and *)
(* Delete return false, ReadAll returns the empty sequence, ReadByService  *)
(* and ReadByUsername return not found.                                    *)
NoStorageErrorEscapes ==
    last.op \in CrudOps =>
        /\ last.result.kind # "raised"
        /\ last.fault # "none" =>
              /\ last.op \in {"create", "update", "delete"}
                    => last.result = RetBool(FALSE)
              /\ last.op = "read_all" => last.result = RetList(<<>>)
              /\ last.op \in {"read_by_service", "read_by_username"}
                    => NotFound(last.result)

NoStorageErrorEscapesWitness ==
    /\ last.op = "create"
    /\ last.fault = "connect"
    /\ last.result = RetBool(FALSE)

(* C11 as stated: a failure to open or configure the connection, and a      *)
(* failure of the schema statements, is raised to the caller in every      *)
(* operation where it occurs, never turned into a result.                  *)
ConnectionFailureAlwaysRaises ==
    (ConnectRaises(last.fault) \/ (last.op = "init_db" /\ last.fault # "none"))
        => last.result = RetRaised

(* C11 amended: init_db raises every connection failure and every schema   *)
(* failure, and a failure at module load aborts the load; the CRUD         *)
(* operations turn a connection failure into their own failure result.     *)
InitFailureRaises ==
    /\ (last.op = "init_db" /\ last.fault # "none") => last.result = RetRaised
    /\ pc = "aborted" => (last.op = "init_db" /\ last.result = RetRaised)
    /\ (last.op = "init_db" /\ last.result = RetRaised) => pc # "import"
    /\ (last.op \in CrudOps /\ ConnectRaises(last.fault))
          => last.result \in {RetBool(FALSE), RetList(<<>>), RetOptional(<<>>)}

InitFailureRaisesWitness ==
    /\ pc = "aborted"
    /\ last.op = "init_db"
    /\ last.fault = "execute"
    /\ last.result = RetRaised
    /\ schema.table /\ ~schema.idx_username

(* C12 as stated: init_db called on an initialized vault raises no error,  *)
(* leaves the table and the two indexes as they are and leaves every       *)
(* stored entry unchanged.                                                 *)
InitDbIdempotent ==
    [][ (Called("init_db") /\ schema = FullSchema)
          => ( /\ last'.result = RetNone
               /\ schema' = FullSchema
               /\ rows' = rows /\ nextId' = nextId ) ]_vars

(* C12 amended: init_db called on an initialized vault raises no error     *)
(* when no storage failure occurs, and in every case leaves the table, the *)
(* two indexes and every stored entry unchanged.                           *)
InitDbIdempotentNoFault ==
    [][ (Called("init_db") /\ schema = FullSchema)
          => ( /\ last'.fault = "none" => last'.result = RetNone
               /\ schema' = FullSchema
               /\ rows' = rows /\ nextId' = nextId ) ]_vars

InitDbIdempotentNoFaultWitness ==
    /\ last.op = "init_db"
    /\ last.fault = "none"
    /\ last.result = RetNone
    /\ schema = FullSchema
    /\ rows # {}

(* C13: without a storage failure ReadAll returns exactly the stored       *)
(* entries, one per stored row with that row's fields, none omitted and    *)
(* none repeated; it is empty exactly when the vault holds no entry.       *)
ReadAllExact ==
    (last.op = "read_all" /\ last.fault = "none") =>
        LET out == last.result.entries IN
        /\ last.result.kind = "list"
        /\ Len(out) = Cardinality(rows)
        /\ \E f \in [1..Len(out) -> rows] :
              /\ \A i, j \in 1..Len(out) : i # j => f[i] # f[j]
              /\ \A i \in 1..Len(out) :
                    /\ Carries(out[i], f[i])
                    /\ out[i].created_at = <<"datetime", f[i].created_at[2]>>
        /\ out = <<>> <=> rows = {}

ReadAllExactWitness ==
    /\ last.op = "read_all"
    /\ last.fault = "none"
    /\ Len(last.result.entries) = 2
    /\ last.result.entries[1].service = last.result.entries[2].service

(* C14: without a storage failure ReadByUsername(username) returns not     *)
(* found if and only if no stored entry has that username; otherwise it    *)
(* returns exactly one entry, which is a stored entry with that username.  *)
ReadByUsernameMatches ==
    (last.op = "read_by_username" /\ last.fault = "none") =>
        LET out == last.result.entries
            same == { r \in rows : r.username = last.username }
        IN
        /\ last.result.kind = "optional"
        /\ NotFound(last.result) <=> same = {}
        /\ same # {} =>
              /\ Len(out) = 1
              /\ last.result.ok
              /\ \E r \in same :
                    /\ Carries(out[1], r)
                    /\ out[1].created_at = <<"datetime", r.created_at[2]>>

ReadByUsernameMatchesWitness ==
    /\ last.op = "read_by_username"
    /\ last.fault = "none"
    /\ last.result.ok
    /\ Cardinality({ r \in rows : r.username = last.username }) = 2
    /\ \E r \in rows : r.username = last.username
                          /\ r.service # last.result.entries[1].service

(* C15: every invocation of every operation emits at least one log message *)
(* before it returns, on its success, warning and error paths.             *)
EveryCallLogs == last.op # "none" => Len(logged) >= 1

(* C17: no Create, Read, Update or Delete is executed before a schema      *)
(* initialization has completed successfully at module load; a failed      *)
(* initialization aborts the load.                                         *)
InitPrecedesUse ==
    /\ last.op \in CrudOps => (pc = "ready" /\ schema = FullSchema)
    /\ pc # "ready" => (last.op \in {"none", "init_db"} /\ rows = {} /\ nextId = 1)
    /\ pc = "ready" => schema = FullSchema

InitPrecedesUseWitness ==
    /\ last.op = "create"
    /\ last.fault = "none"
    /\ last.result = RetBool(TRUE)
    /\ pc = "ready"
    /\ schema = FullSchema

MutatingOps == {"create", "update", "delete"}

ReadOps == {"read_all", "read_by_service", "read_by_username"}

(* C18: a Create, Update or Delete with key s (and new key s' for Update)  *)
(* changes no entry whose service differs from s and s', whether the call  *)
(* succeeds or fails.                                                      *)
OtherServicesUntouched ==
    [][ (now' = now /\ last'.op \in MutatingOps) =>
          LET keys == {last'.service, last'.entry.service} IN
          { r \in rows : r.service \notin keys }
             = { r \in rows' : r.service \notin keys } ]_vars

OtherServicesUntouchedWitness ==
    /\ last.op = "update"
    /\ last.result = RetBool(TRUE)
    /\ last.service = last.entry.service
    /\ \E r \in rows : r.service # last.service
    /\ \E r \in rows : Carries(r, last.entry)

(* C19: ReadAll, ReadByService and ReadByUsername never modify the vault,  *)
(* whether they find an entry, find none or meet a storage failure.        *)
ReadsChangeNothing ==
    [][ (now' = now /\ last'.op \in ReadOps) =>
          (rows' = rows /\ nextId' = nextId /\ schema' = schema) ]_vars

ReadsChangeNothingWitness ==
    /\ last.op = "read_by_service"
    /\ last.fault = "none"
    /\ last.result.ok
    /\ Cardinality(rows) = 2

----------------------------------------------------------------------------
(* Two calls run one after the other, as the reference for C16 *)

SeqApply(state, call, contended) ==
    LET hit == { r \in state.rows : r.service = call.service } IN
    IF contended THEN [rows |-> state.rows, nextId |-> state.nextId, ok |-> FALSE]
    ELSE IF call.op = "create" THEN
        [rows |-> state.rows \cup
                    { [id |-> state.nextId, service |-> call.entry.service,
                       username |-> call.entry.username,
                       encrypted_password |-> call.entry.encrypted_password,
                       created_at |-> <<"text", now>>] },
         nextId |-> state.nextId + 1, ok |-> TRUE]
    ELSE IF call.op = "update" THEN
        [rows |-> (state.rows \ hit) \cup
                    { [id |-> r.id, service |-> call.entry.service,
                       username |-> call.entry.username,
                       encrypted_password |-> call.entry.encrypted_password,
                       created_at |-> r.created_at] : r \in hit },
         nextId |-> state.nextId, ok |-> hit # {}]
    ELSE [rows |-> state.rows \ hit, nextId |-> state.nextId, ok |-> hit # {}]

Serial(first, second, contended) ==
    LET a == SeqApply(start, ctx[first], first \in contended)
        b == SeqApply(a, ctx[second], second \in contended)
    IN [rows |-> b.rows, nextId |-> b.nextId,
        ok |-> [c \in Contexts |-> IF c = first THEN a.ok ELSE b.ok]]

Outcome ==
    [rows |-> rows, nextId |-> nextId,
     ok |-> [c \in Contexts |-> ctx[c].result = RetBool(TRUE)]]

AllDone == \A c \in Contexts : ctx[c].op # "none" /\ ctx[c].at = "done"

Completes ==
    /\ \A c \in Contexts : ctx[c].at = "done" => ctx[c].result.kind \in {"bool", "none"}
    /\ (\A c \in Contexts : ctx[c].at = "execute") => lock = 0
    /\ (\E c \in Contexts : ctx[c].at = "commit") => lock # 0

(* C16 as stated: two mutating calls issued concurrently each complete     *)
(* with a boolean result, and the final vault and the two results are      *)
(* those of running the two calls in one of the two sequential orders.     *)
SerialEquivalence ==
    /\ Completes
    /\ AllDone => Outcome \in { Serial(1, 2, {}), Serial(2, 1, {}) }

(* C16 amended: ... those of running the two calls in one of the two       *)
(* sequential orders, or of such a run in which a call that met the other  *)
(* call's lock on the file returns false and changes nothing.              *)
SerialEquivalenceUpToContention ==
    /\ Completes
    /\ AllDone => Outcome \in { Serial(1, 2, k) : k \in SUBSET Contexts }
                              \cup { Serial(2, 1, k) : k \in SUBSET Contexts }

SerialEquivalenceUpToContentionWitness ==
    /\ AllDone
    /\ ctx[1].op = "create" /\ ctx[2].op = "delete"
    /\ ctx[1].service = ctx[2].service
    /\ ctx[1].result = RetBool(TRUE) /\ ctx[2].result = RetBool(TRUE)
    /\ rows = start.rows /\ rows = {}

====
